---- MODULE Spec2Model ----
(***************************************************************************)
(* Model of the plugin lifecycle of Modular-Discord-Bot: class Plugin of   *)
(* src/core/plugin.py (construction, file resolution, download, load,      *)
(* unload, reload, enable, disable) against its three collaborators: the   *)
(* database session (PluginData / PluginFiles rows), the plugin folder on  *)
(* disk, and the host bot's extension table.                               *)
(*                                                                         *)
(* Strings the code computes on (relative paths, module identifiers) are   *)
(* sequences of one-character strings, so that str.replace is modelled by  *)
(* what it does.                                                           *)
(***************************************************************************)
EXTENDS Integers, Sequences, FiniteSets, TLC

VARIABLES
  db,          \* table PluginData: id -> [enabled]
  dbFiles,     \* table PluginFiles: id -> rows <<file, file_url>>, in query order
  disk,        \* plugins/<folder_name>/<file>: id -> path -> content, NoFile if absent
  plugins,     \* the Plugin object of each record, NoPlugin before construction
  extensions,  \* module identifiers loaded in the host bot
  last         \* the last call: operation, result, escaped exception, the host
               \* and HTTP calls it made, the state before it, the object after
               \* it, the requirements file it read and the list it returned

vars == <<db, dbFiles, disk, plugins, extensions, last>>

(***************************************************************************)
(* Bounds                                                                  *)
(***************************************************************************)
\* rows of table PluginData
NumPlugins == 2
\* rows of table PluginFiles per plugin
MaxFiles == 3
\* characters of a requirements.txt
MaxReqLen == 3

PluginIds == 1..NumPlugins

\* the records whose Plugin object is followed; the other rows of PluginData
\* are only rows of the database
Managed == {1}

(***************************************************************************)
(* Strings                                                                 *)
(***************************************************************************)
\* the relative paths a PluginFiles row may name
PathSeq ==
  << <<"a", "_", "b", ".", "p", "y">>,
     <<"a", "-", "b", ".", "p", "y">>,
     <<"a", "/", "b", ".", "p", "y">>,
     <<"a", ".", "p", "y", "b", ".", "p", "y">> >>

Paths == { PathSeq[i] : i \in 1..Len(PathSeq) }

FolderName(pid) == <<"f", ToString(pid)>>

UrlOf(pid, path) == <<"h", ":">> \o FolderName(pid) \o <<"/">> \o path

\* r.content of a successful GET of url
Body(url) == <<"body">> \o url

NoFile == <<>>
\* content of a file that was on disk before the program ran
Orig == <<"orig">>

IsPrefixAt(s, old, i) ==
  /\ i + Len(old) - 1 <= Len(s)
  /\ \A j \in 1..Len(old) : s[i + j - 1] = old[j]

\* str.replace(old, new) for non-empty old: left to right, non-overlapping
RECURSIVE ReplaceFrom(_, _, _, _)
ReplaceFrom(s, old, new, i) ==
  IF i > Len(s) THEN <<>>
  ELSE IF IsPrefixAt(s, old, i)
       THEN new \o ReplaceFrom(s, old, new, i + Len(old))
       ELSE <<s[i]>> \o ReplaceFrom(s, old, new, i + 1)

Replace(s, old, new) == ReplaceFrom(s, old, new, 1)

\* generate_safe_path with the path separator mapped to the underscore too
generate_safe_path_flat(folder_name, path) ==
  <<"p", "l", "u", "g", "i", "n", "s", ".">> \o folder_name \o <<".">> \o
    Replace(Replace(Replace(Replace(Replace(path,
        <<".", "p", "y">>, <<>>),
        <<" ">>, <<"_">>),
        <<"-">>, <<"_">>),
        <<".">>, <<"_">>),
        <<"/">>, <<"_">>)

generate_safe_path(folder_name, path) ==
  <<"p", "l", "u", "g", "i", "n", "s", ".">> \o folder_name \o <<".">> \o
    Replace(Replace(Replace(Replace(Replace(path,
        <<".", "p", "y">>, <<>>),
        <<" ">>, <<"_">>),
        <<"-">>, <<"_">>),
        <<".">>, <<"_">>),
        <<"/">>, <<".">>)

(***************************************************************************)
(* Plugin object                                                           *)
(***************************************************************************)
\* no Plugin object exists for the record (yet)
NoPlugin ==
  [constructed |-> FALSE, id |-> 0, folder_name |-> <<>>, enabled |-> FALSE,
   files |-> <<>>, empty |-> FALSE, local |-> FALSE,
   non_local_files |-> <<>>, local_files |-> <<>>]

\* no plugins/<folder_name>/requirements.txt
NoReq == [exists |-> FALSE, text |-> <<>>]

\* the operation before any operation.  barred: a load, unload or reload of
\* the plugin did not return True, or disable was called, and enable has not
\* been called since
NoOp ==
  [op |-> "none", pid |-> 0, ret |-> "None", exc |-> "none",
   host |-> <<>>, http |-> <<>>, downloaded |-> FALSE,
   pre |-> [plugin |-> NoPlugin, db |-> <<>>, extensions |-> {}, disk |-> <<>>,
            barred |-> FALSE],
   obj |-> NoPlugin, req |-> NoReq, out |-> <<>>, barred |-> FALSE]

Snapshot(pid) ==
  [plugin |-> plugins[pid], db |-> db, extensions |-> extensions, disk |-> disk,
   barred |-> last.barred]

\* index of the dict entry with key path, 0 if none
KeyIndex(d, path) ==
  IF \E i \in 1..Len(d) : d[i][1] = path
  THEN CHOOSE i \in 1..Len(d) : d[i][1] = path
  ELSE 0

\* dict comprehension {file.file: file.file_url for file in plugin_files}:
\* a key keeps the position of its first row and the url of its last row
RECURSIVE DictOf(_, _)
DictOf(rows, d) ==
  IF rows = <<>> THEN d
  ELSE LET k == KeyIndex(d, Head(rows)[1])
       IN DictOf(Tail(rows),
                 IF k = 0 THEN Append(d, Head(rows))
                 ELSE [d EXCEPT ![k] = Head(rows)])

_get_files(pid) == DictOf(dbFiles[pid], <<>>)

\* a presence test that finds every file
Exists_always(dsk, pid, path) == TRUE

Exists(dsk, pid, path) == dsk[pid][path] # NoFile

\* (local, non_local_files, local_files) of a file dict against the disk
RECURSIVE ExistsLocalyFrom(_, _, _, _)
ExistsLocalyFrom(files, dsk, pid, acc) ==
  IF files = <<>> THEN acc
  ELSE LET file == Head(files)[1]
           link == Head(files)[2]
       IN ExistsLocalyFrom(Tail(files), dsk, pid,
            IF ~Exists(dsk, pid, file)
            THEN [acc EXCEPT !.non_local_files = Append(@, <<file, link>>),
                             !.local = FALSE]
            ELSE [acc EXCEPT !.local_files = Append(@, file)])

_exists_localy(files, dsk, pid) ==
  ExistsLocalyFrom(files, dsk, pid,
    [local |-> TRUE, non_local_files |-> <<>>, local_files |-> <<>>])

\* what the collaborator does in one pass over n files: all succeed, or the
\* k-th is the first that fails, with outcome e (the pass stops there, so
\* what later calls would do is never observed)
Passes(n, outcomes) ==
  { [i \in 1..n |-> "ok"] } \cup
  { [i \in 1..n |-> IF i = k THEN e ELSE "ok"] : k \in 1..n, e \in outcomes \ {"ok"} }

(***************************************************************************)
(* Download: requests.get per missing file, inside try/except              *)
(* ConnectionError.  The name ConnectionError is the builtin one (the      *)
(* module imports requests, not its exceptions), and                       *)
(* requests.exceptions.ConnectionError is not a subclass of it.            *)
(***************************************************************************)
HttpOutcomes == {"ok", "ConnectionError", "requests.ConnectionError"}

\* the handler of line 101 catches e
DownloadCatches(e) == e = "ConnectionError"

\* a batch that appends the path without writing the file
RECURSIVE DownloadFrom_no_write(_, _, _, _, _)
DownloadFrom_no_write(todo, i, pid, net, st) ==
  IF todo = <<>> THEN st
  ELSE IF net[i] = "ok"
       THEN DownloadFrom_no_write(Tail(todo), i + 1, pid, net,
              [st EXCEPT !.http = Append(@, <<Head(todo)[2], "ok">>),
                         !.local_files = Append(@, Head(todo)[1])])
       ELSE [st EXCEPT !.http = Append(@, <<Head(todo)[2], net[i]>>),
                       !.exc = IF DownloadCatches(net[i]) THEN "none" ELSE net[i]]

\* st: [local_files, dsk, http, exc]; net[i] is the outcome of the i-th GET
RECURSIVE DownloadFrom(_, _, _, _, _)
DownloadFrom(todo, i, pid, net, st) ==
  IF todo = <<>> THEN st
  ELSE LET file == Head(todo)[1]
           link == Head(todo)[2]
       IN IF net[i] = "ok"
          THEN DownloadFrom(Tail(todo), i + 1, pid, net,
                 [st EXCEPT !.http = Append(@, <<link, "ok">>),
                            !.dsk = [@ EXCEPT ![pid][file] = Body(link)],
                            !.local_files = Append(@, file)])
          ELSE [st EXCEPT !.http = Append(@, <<link, net[i]>>),
                          !.exc = IF DownloadCatches(net[i]) THEN "none" ELSE net[i]]

\* a batch that starts a new list instead of appending to local_files
_download_fresh(p, dsk, net) ==
  DownloadFrom(p.non_local_files, 1, p.id, net,
    [local_files |-> <<>>, dsk |-> dsk, http |-> <<>>, exc |-> "none"])

_download(p, dsk, net) ==
  DownloadFrom(p.non_local_files, 1, p.id, net,
    [local_files |-> p.local_files, dsk |-> dsk, http |-> <<>>, exc |-> "none"])

(***************************************************************************)
(* Host bot: the extension table of discord.ext.commands.Bot.  env is what *)
(* importing and setting up the module would do.                          *)
(***************************************************************************)
ImportOutcomes == {"ok", "ExtensionNotFound", "ExtensionFailed", "NoEntryPointError"}
ResolveOutcomes == {"ok", "ExtensionNotFound"}

load_extension(ext, name, env) ==
  IF name \in ext THEN [ext |-> ext, outcome |-> "ExtensionAlreadyLoaded"]
  ELSE IF env = "ok" THEN [ext |-> ext \cup {name}, outcome |-> "ok"]
  ELSE [ext |-> ext, outcome |-> env]

unload_extension(ext, name, env) ==
  IF env # "ok" THEN [ext |-> ext, outcome |-> env]
  ELSE IF name \notin ext THEN [ext |-> ext, outcome |-> "ExtensionNotLoaded"]
  ELSE [ext |-> ext \ {name}, outcome |-> "ok"]

\* a failed reload puts the old module back
reload_extension(ext, name, env) ==
  IF env = "ExtensionNotFound" THEN [ext |-> ext, outcome |-> env]
  ELSE IF name \notin ext THEN [ext |-> ext, outcome |-> "ExtensionNotLoaded"]
  ELSE [ext |-> ext, outcome |-> env]

\* the except clauses of load, unload and reload
LoadCatches(e) ==
  e \in {"ExtensionFailed", "ExtensionNotFound", "ExtensionNotLoaded", "NoEntryPointError"}

\* an except clause of unload that forgets ExtensionNotLoaded
UnloadCatches_not_found_only(e) == e = "ExtensionNotFound"

UnloadCatches(e) == e \in {"ExtensionNotFound", "ExtensionNotLoaded"}

ReloadCatches(e) ==
  e \in {"ExtensionFailed", "ExtensionNotFound", "ExtensionNotLoaded", "NoEntryPointError"}

HostCall(kind, ext, name, env) ==
  CASE kind = "load" -> load_extension(ext, name, env)
    [] kind = "unload" -> unload_extension(ext, name, env)
    [] kind = "reload" -> reload_extension(ext, name, env)

Catches(kind, e) ==
  CASE kind = "load" -> LoadCatches(e)
    [] kind = "unload" -> UnloadCatches(e)
    [] kind = "reload" -> ReloadCatches(e)

\* the for loop over [generate_safe_path(i) for i in local_files].  load has
\* its try inside the loop and returns from the handler, unload and reload
\* have the loop inside the try: either way the first exception ends the
\* loop, a caught one with enabled = False and the result False, any other
\* one by leaving the method.
\* st: [enabled, ext, host, ret, exc]
RECURSIVE HostLoop(_, _, _, _, _)
HostLoop(kind, names, i, env, st) ==
  IF i > Len(names) THEN [st EXCEPT !.ret = "True"]
  ELSE LET r == HostCall(kind, st.ext, names[i], env[i])
           st1 == [st EXCEPT !.ext = r.ext,
                             !.host = Append(@, <<names[i], r.outcome>>)]
       IN IF r.outcome = "ok" THEN HostLoop(kind, names, i + 1, env, st1)
          ELSE IF Catches(kind, r.outcome)
          THEN [st1 EXCEPT !.enabled = FALSE, !.ret = "False"]
          ELSE [st1 EXCEPT !.ret = "raise", !.exc = r.outcome]

\* generate_safe_path over the folders and paths of the model, computed once
SafePathTable ==
  [folder \in { FolderName(pid) : pid \in PluginIds } |->
     [path \in Paths |-> generate_safe_path(folder, path)]]

\* [self.generate_safe_path(i) for i in self.local_files]
SafePaths(p) ==
  [i \in 1..Len(p.local_files) |-> SafePathTable[p.folder_name][p.local_files[i]]]

HostStart(p, ext) ==
  [enabled |-> p.enabled, ext |-> ext, host |-> <<>>, ret |-> "None", exc |-> "none"]

\* load without the check of the enabled flag
load_unguarded(p, ext, env) == HostLoop("load", SafePaths(p), 1, env, HostStart(p, ext))

load(p, ext, env) ==
  IF p.enabled THEN HostLoop("load", SafePaths(p), 1, env, HostStart(p, ext))
  ELSE [HostStart(p, ext) EXCEPT !.ret = "False"]

\* unload with the check of the enabled flag that load has
unload_guarded(p, ext, env) ==
  IF p.enabled THEN HostLoop("unload", SafePaths(p), 1, env, HostStart(p, ext))
  ELSE [HostStart(p, ext) EXCEPT !.ret = "False"]

unload(p, ext, env) == HostLoop("unload", SafePaths(p), 1, env, HostStart(p, ext))

reload(p, ext, env) == HostLoop("reload", SafePaths(p), 1, env, HostStart(p, ext))

\* the update without filter_by: every row is written
UpdateEnabled_unfiltered(d, id, value) ==
  [r \in DOMAIN d |-> [d[r] EXCEPT !.enabled = value]]

\* query(PluginData).filter_by(id=id).update({PluginData.enabled: value})
UpdateEnabled(d, id, value) ==
  [r \in DOMAIN d |-> IF r = id THEN [d[r] EXCEPT !.enabled = value] ELSE d[r]]

(***************************************************************************)
(* Plugin.__init__                                                         *)
(***************************************************************************)
\* the object without the empty check of lines 50-52
Resolved_keeps_flag(pid) ==
  LET files == _get_files(pid)
      res == _exists_localy(files, disk, pid)
  IN [constructed |-> TRUE, id |-> pid, folder_name |-> FolderName(pid),
      enabled |-> db[pid].enabled,
      files |-> files, empty |-> Len(files) = 0, local |-> res.local,
      non_local_files |-> res.non_local_files, local_files |-> res.local_files]

\* the object once resolution and the empty check are done (lines 26-52)
Resolved(pid) ==
  LET files == _get_files(pid)
      empty == Len(files) = 0
      res == _exists_localy(files, disk, pid)
  IN [constructed |-> TRUE, id |-> pid, folder_name |-> FolderName(pid),
      enabled |-> IF empty THEN FALSE ELSE db[pid].enabled,
      files |-> files, empty |-> empty, local |-> res.local,
      non_local_files |-> res.non_local_files, local_files |-> res.local_files]

\* the download condition without the enabled flag
WantsDownload_any_state(p) == ~p.local /\ ~p.empty

\* the condition of line 55
WantsDownload(p) == ~p.local /\ ~p.empty /\ ~p.enabled

Construct(pid) ==
  /\ ~plugins[pid].constructed
  /\ LET p == Resolved(pid)
     IN IF WantsDownload(p)
        THEN \E net \in Passes(Len(p.non_local_files), HttpOutcomes) :
               LET d == _download(p, disk, net)
                   obj == [p EXCEPT !.local_files = d.local_files]
               IN /\ disk' = d.dsk
                  /\ plugins' = IF d.exc = "none"
                                THEN [plugins EXCEPT ![pid] = obj]
                                ELSE plugins
                  /\ last' = [op |-> "init", pid |-> pid,
                              ret |-> IF d.exc = "none" THEN "None" ELSE "raise",
                              exc |-> d.exc, host |-> <<>>, http |-> d.http,
                              downloaded |-> TRUE, pre |-> Snapshot(pid),
                              obj |-> obj, req |-> NoReq, out |-> <<>>,
                              barred |-> FALSE]
        ELSE /\ disk' = disk
             /\ plugins' = [plugins EXCEPT ![pid] = p]
             /\ last' = [op |-> "init", pid |-> pid, ret |-> "None",
                         exc |-> "none", host |-> <<>>, http |-> <<>>,
                         downloaded |-> FALSE, pre |-> Snapshot(pid), obj |-> p,
                         req |-> NoReq, out |-> <<>>, barred |-> FALSE]
  /\ UNCHANGED <<db, dbFiles, extensions>>

(***************************************************************************)
(* Operations on a constructed Plugin                                      *)
(***************************************************************************)
\* a load, unload or reload that also stores the flag it ends with
HostOp_write_through(kind, pid, r) ==
  LET obj == [plugins[pid] EXCEPT !.enabled = r.enabled]
  IN /\ plugins' = [plugins EXCEPT ![pid] = obj]
     /\ extensions' = r.ext
     /\ db' = UpdateEnabled(db, plugins[pid].id, r.enabled)
     /\ last' = [op |-> kind, pid |-> pid, ret |-> r.ret, exc |-> r.exc,
                 host |-> r.host, http |-> <<>>, downloaded |-> FALSE,
                 pre |-> Snapshot(pid), obj |-> obj, req |-> NoReq, out |-> <<>>,
                 barred |-> last.barred \/ r.ret # "True"]
     /\ UNCHANGED <<dbFiles, disk>>

HostOp(kind, pid, r) ==
  LET obj == [plugins[pid] EXCEPT !.enabled = r.enabled]
  IN /\ plugins' = [plugins EXCEPT ![pid] = obj]
     /\ extensions' = r.ext
     /\ last' = [op |-> kind, pid |-> pid, ret |-> r.ret, exc |-> r.exc,
                 host |-> r.host, http |-> <<>>, downloaded |-> FALSE,
                 pre |-> Snapshot(pid), obj |-> obj, req |-> NoReq, out |-> <<>>,
                 barred |-> last.barred \/ r.ret # "True"]
     /\ UNCHANGED <<db, dbFiles, disk>>

Envs(pid) == Passes(Len(plugins[pid].local_files), ImportOutcomes)

\* a disabled plugin imports nothing, whatever importing would do
Load(pid) ==
  /\ plugins[pid].constructed
  /\ \E env \in (IF plugins[pid].enabled THEN Envs(pid)
                  ELSE {[i \in 1..Len(plugins[pid].local_files) |-> "ok"]}) :
       HostOp("load", pid, load(plugins[pid], extensions, env))

Unload(pid) ==
  /\ plugins[pid].constructed
  /\ \E env \in Passes(Len(plugins[pid].local_files), ResolveOutcomes) :
       HostOp("unload", pid, unload(plugins[pid], extensions, env))

Reload(pid) ==
  /\ plugins[pid].constructed
  /\ \E env \in Envs(pid) : HostOp("reload", pid, reload(plugins[pid], extensions, env))

SetEnabled(kind, pid, value) ==
  LET obj == [plugins[pid] EXCEPT !.enabled = value]
  IN /\ plugins' = [plugins EXCEPT ![pid] = obj]
     /\ db' = UpdateEnabled(db, plugins[pid].id, value)
     /\ last' = [op |-> kind, pid |-> pid, ret |-> "None", exc |-> "none",
                 host |-> <<>>, http |-> <<>>, downloaded |-> FALSE,
                 pre |-> Snapshot(pid), obj |-> obj, req |-> NoReq, out |-> <<>>,
                 barred |-> ~value]
     /\ UNCHANGED <<dbFiles, disk, extensions>>

Enable(pid) == plugins[pid].constructed /\ SetEnabled("enable", pid, TRUE)

Disable(pid) == plugins[pid].constructed /\ SetEnabled("disable", pid, FALSE)

(***************************************************************************)
(* Plugin.get_requirements                                                 *)
(***************************************************************************)
ReqChars == {"r", "\n"}

\* a requirements.txt as it may stand in the plugin folder when it is read;
\* the program never writes it
ReqFiles ==
  {NoReq} \cup
  { [exists |-> TRUE, text |-> t] :
      t \in UNION { [1..n -> ReqChars] : n \in 0..MaxReqLen } }

\* str.splitlines() over "\n": a line ends at each newline, the text after
\* the last newline is a line if it is not empty
\* acc: [lines, cur]
RECURSIVE SplitFrom(_, _, _)
SplitFrom(text, i, acc) ==
  IF i > Len(text)
  THEN IF acc.cur = <<>> THEN acc.lines ELSE Append(acc.lines, acc.cur)
  ELSE IF text[i] = "\n"
       THEN SplitFrom(text, i + 1, [lines |-> Append(acc.lines, acc.cur), cur |-> <<>>])
       ELSE SplitFrom(text, i + 1, [acc EXCEPT !.cur = Append(@, text[i])])

splitlines(text) == SplitFrom(text, 1, [lines |-> <<>>, cur |-> <<>>])

get_requirements(f) == IF f.exists THEN splitlines(f.text) ELSE <<>>

\* the requirements files the interleaving with the other operations is
\* explored with: none, and one with two requirements and a blank line between
SampleReqs == {NoReq, [exists |-> TRUE, text |-> <<"r", "\n", "\n", "r">>]}

GetRequirementsOf(pid, files) ==
  /\ plugins[pid].constructed
  /\ \E f \in files :
       last' = [op |-> "get_requirements", pid |-> pid, ret |-> "list",
                exc |-> "none", host |-> <<>>, http |-> <<>>,
                downloaded |-> FALSE, pre |-> Snapshot(pid),
                obj |-> plugins[pid], req |-> f, out |-> get_requirements(f),
                barred |-> last.barred]
  /\ UNCHANGED <<db, dbFiles, disk, plugins, extensions>>

GetRequirements(pid) == GetRequirementsOf(pid, SampleReqs)

GetRequirementsAny(pid) == GetRequirementsOf(pid, ReqFiles)

(***************************************************************************)
(* Specification                                                           *)
(***************************************************************************)
\* the rows of PluginFiles of plugin pid that name the paths PathSeq[i], i in S
RECURSIVE RowsFrom(_, _, _)
RowsFrom(pid, S, i) ==
  IF i > Len(PathSeq) THEN <<>>
  ELSE (IF i \in S THEN << <<PathSeq[i], UrlOf(pid, PathSeq[i])>> >> ELSE <<>>)
       \o RowsFrom(pid, S, i + 1)

Declared(rows) == { rows[i][1] : i \in 1..Len(rows) }

\* the database holds a PluginData row per id, with either flag, and at most
\* MaxFiles PluginFiles rows for a followed plugin; each declared file is on
\* disk or not; no Plugin object exists and the host has no extension loaded
Init ==
  /\ db \in [PluginIds -> [enabled : BOOLEAN]]
  /\ \E sel \in [Managed -> { T \in SUBSET (1..Len(PathSeq)) : Cardinality(T) <= MaxFiles }] :
       dbFiles = [pid \in PluginIds |->
                    IF pid \in Managed THEN RowsFrom(pid, sel[pid], 1) ELSE <<>>]
  /\ \E present \in [Managed -> SUBSET Paths] :
       /\ \A pid \in Managed : present[pid] \subseteq Declared(dbFiles[pid])
       /\ disk = [pid \in Managed |-> [path \in Paths |->
                    IF path \in present[pid] THEN Orig ELSE NoFile]]
  /\ plugins = [pid \in Managed |-> NoPlugin]
  /\ extensions = {}
  /\ last = NoOp

Next ==
  \E pid \in Managed :
    \/ Construct(pid)
    \/ Load(pid)
    \/ Unload(pid)
    \/ Reload(pid)
    \/ Enable(pid)
    \/ Disable(pid)
    \/ GetRequirements(pid)

Spec == Init /\ [][Next]_vars

\* get_requirements on a constructed plugin, over every requirements file of
\* at most MaxReqLen characters
NextReq ==
  \E pid \in Managed :
    \/ Construct(pid)
    \/ GetRequirementsAny(pid)

SpecReq == Init /\ [][NextReq]_vars

(***************************************************************************)
(* Startup of ModularBot: populate_plugins(), install_requirements() and   *)
(* load_all_plugins(), in this order.  The handler's code is not part of   *)
(* the sources; populate and load all are taken from its description: one  *)
(* Plugin per PluginData row, by ascending id, then Plugin.load() of each  *)
(* in that order.  install_requirements() only reads (get_requirements)    *)
(* and is left out.                                                        *)
(***************************************************************************)
\* every record has at most MaxFiles files, and all of them are on disk, so
\* that constructing the plugins downloads nothing
InitAll ==
  /\ db \in [PluginIds -> [enabled : BOOLEAN]]
  /\ \E sel \in [PluginIds -> { T \in SUBSET (1..Len(PathSeq)) : Cardinality(T) <= MaxFiles }] :
       dbFiles = [pid \in PluginIds |-> RowsFrom(pid, sel[pid], 1)]
  /\ disk = [pid \in PluginIds |-> [path \in Paths |->
               IF path \in Declared(dbFiles[pid]) THEN Orig ELSE NoFile]]
  /\ plugins = [pid \in PluginIds |-> NoPlugin]
  /\ extensions = {}
  /\ last = NoOp

\* the state before a pass over the whole registry
SnapshotAll ==
  [plugin |-> NoPlugin, db |-> db, extensions |-> extensions, disk |-> disk,
   barred |-> FALSE, plugins |-> plugins]

PopulatePlugins ==
  /\ \A pid \in PluginIds : ~plugins[pid].constructed
  /\ \A pid \in PluginIds : ~WantsDownload(Resolved(pid))
  /\ plugins' = [pid \in PluginIds |-> Resolved(pid)]
  /\ last' = [op |-> "populate_plugins", pid |-> 0, ret |-> "None", exc |-> "none",
              host |-> <<>>, http |-> <<>>, downloaded |-> FALSE,
              pre |-> SnapshotAll, obj |-> NoPlugin, req |-> NoReq, out |-> <<>>,
              barred |-> FALSE]
  /\ UNCHANGED <<db, dbFiles, disk, extensions>>

\* what importing the modules would do, for the plugins pid..NumPlugins; a
\* disabled plugin imports nothing
RECURSIVE EnvsFrom(_)
EnvsFrom(pid) ==
  IF pid > NumPlugins THEN {<<>>}
  ELSE LET n == Len(plugins[pid].local_files)
           own == IF plugins[pid].enabled THEN Passes(n, ImportOutcomes)
                  ELSE {[i \in 1..n |-> "ok"]}
       IN { <<e>> \o rest : e \in own, rest \in EnvsFrom(pid + 1) }

\* for plugin in registry: plugin.load().  An exception load() does not
\* catch leaves the loop.
\* st: [plugins, ext, out, exc]; envs[k] belongs to plugin pid + k - 1
RECURSIVE LoadAllFrom(_, _, _)
LoadAllFrom(pid, envs, st) ==
  IF pid > NumPlugins THEN st
  ELSE LET r == load(st.plugins[pid], st.ext, Head(envs))
           st1 == [plugins |-> [st.plugins EXCEPT ![pid].enabled = r.enabled],
                   ext |-> r.ext,
                   out |-> Append(st.out, [pid |-> pid, ret |-> r.ret, exc |-> r.exc,
                                           host |-> r.host, env |-> Head(envs)]),
                   exc |-> r.exc]
       IN IF r.ret = "raise" THEN st1 ELSE LoadAllFrom(pid + 1, Tail(envs), st1)

LoadAllPlugins ==
  /\ last.op = "populate_plugins"
  /\ \E envs \in EnvsFrom(1) :
       LET r == LoadAllFrom(1, envs,
                  [plugins |-> plugins, ext |-> extensions, out |-> <<>>, exc |-> "none"])
       IN /\ plugins' = r.plugins
          /\ extensions' = r.ext
          /\ last' = [op |-> "load_all_plugins", pid |-> 0,
                      ret |-> IF r.exc = "none" THEN "None" ELSE "raise",
                      exc |-> r.exc, host |-> <<>>, http |-> <<>>,
                      downloaded |-> FALSE, pre |-> SnapshotAll, obj |-> NoPlugin,
                      req |-> NoReq, out |-> r.out, barred |-> FALSE]
  /\ UNCHANGED <<db, dbFiles, disk>>

NextLoadAll == PopulatePlugins \/ LoadAllPlugins

SpecLoadAll == InitAll /\ [][NextLoadAll]_vars

(***************************************************************************)
(* Reading the record of the last operation                                *)
(***************************************************************************)
\* the module identifiers the last operation had to pass to the host
LastNames == SafePaths(last.pre.plugin)

\* the last host call of the last operation reported an error
LastHostFailed == last.host # <<>> /\ last.host[Len(last.host)][2] # "ok"

\* the host was called for the first k identifiers, in order, and every call
\* before the k-th succeeded
CalledInOrder(k) ==
  /\ k <= Len(LastNames)
  /\ \A i \in 1..k : last.host[i][1] = LastNames[i]
  /\ \A i \in 1..(k - 1) : last.host[i][2] = "ok"

\* the last GET of the last operation failed
LastHttpFailed == last.http # <<>> /\ last.http[Len(last.http)][2] # "ok"

PathsOf(pairs) == { pairs[i][1] : i \in 1..Len(pairs) }

Elems(seq) == { seq[i] : i \in 1..Len(seq) }

\* some declared file of the record was missing on disk before the operation
MissingBefore(pid) ==
  \E i \in 1..Len(dbFiles[pid]) : last.pre.disk[pid][dbFiles[pid][i][1]] = NoFile

(***************************************************************************)
(* C1: load() on an enabled plugin never raises: whatever error the host's *)
(* load primitive reports (not found, failed, already loaded, no entry     *)
(* point), load() sets enabled to false and returns false.                 *)
(* Violated: ExtensionAlreadyLoaded is not among the exceptions load()     *)
(* catches.                                                                *)
(***************************************************************************)
C1_LoadNeverRaises ==
  (last.op = "load" /\ last.pre.plugin.enabled /\ LastHostFailed) =>
    /\ last.exc = "none"
    /\ last.ret = "False"
    /\ ~plugins[last.pid].enabled

(***************************************************************************)
(* C2: load() on an enabled plugin with n local files calls the host in    *)
(* local_files order; if the k-th call fails there are exactly k calls,    *)
(* files 1..k-1 stay loaded, enabled ends false and the result is false;   *)
(* if no call fails there are n calls, enabled stays true and the result   *)
(* is true.                                                                *)
(* Violated on the failure of C1: an already loaded k-th file leaves       *)
(* enabled true and no result.                                             *)
(***************************************************************************)
C2_LoadStopsAtFirstFailure ==
  (last.op = "load" /\ last.pre.plugin.enabled) =>
    LET k == Len(last.host)
    IN /\ CalledInOrder(k)
       /\ IF LastHostFailed
          THEN /\ ~plugins[last.pid].enabled
               /\ last.ret = "False"
               /\ \A i \in 1..(k - 1) : LastNames[i] \in extensions
          ELSE /\ k = Len(LastNames)
               /\ plugins[last.pid].enabled
               /\ last.ret = "True"

(***************************************************************************)
(* C3: load() on a disabled plugin returns false, calls neither the host   *)
(* nor the network, and changes nothing of the plugin, the host, the       *)
(* database or the disk.                                                   *)
(***************************************************************************)
C3_DisabledLoadIsNoOp ==
  (last.op = "load" /\ ~last.pre.plugin.enabled) =>
    /\ last.ret = "False"
    /\ last.exc = "none"
    /\ last.host = <<>>
    /\ last.http = <<>>
    /\ plugins[last.pid] = last.pre.plugin
    /\ extensions = last.pre.extensions
    /\ db = last.pre.db
    /\ disk = last.pre.disk

C3_Witness ==
  /\ last.op = "load"
  /\ ~last.pre.plugin.enabled
  /\ Len(last.pre.plugin.local_files) >= 2
  /\ last.pre.extensions = {}

(***************************************************************************)
(* C4: an empty plugin is never enabled and load() on it never returns     *)
(* true, whatever operations ran since construction.                       *)
(* Violated: enable() sets the flag of an empty plugin, and load() then    *)
(* returns true over the empty local_files.                                *)
(***************************************************************************)
C4_EmptyNeverEnabled ==
  /\ \A pid \in DOMAIN plugins :
       (plugins[pid].constructed /\ plugins[pid].empty) => ~plugins[pid].enabled
  /\ (last.op = "load" /\ last.pre.plugin.empty) => last.ret # "True"

(***************************************************************************)
(* C5: in every state of a Plugin the paths of local_files and the paths   *)
(* of non_local_files are disjoint and together are the keys of files.     *)
(* Violated: a download appends to local_files and leaves non_local_files  *)
(* as it was.                                                              *)
(***************************************************************************)
C5_Partition ==
  \A pid \in DOMAIN plugins :
    plugins[pid].constructed =>
      /\ Elems(plugins[pid].local_files) \cap PathsOf(plugins[pid].non_local_files) = {}
      /\ Elems(plugins[pid].local_files) \cup PathsOf(plugins[pid].non_local_files)
           = PathsOf(plugins[pid].files)

(***************************************************************************)
(* C6: in a download batch whose k-th GET fails with a connection error,   *)
(* exactly k GETs are issued, files 1..k-1 are written and appended to     *)
(* local_files, files k..n are neither written nor appended, and no        *)
(* exception escapes the download, hence none escapes the constructor.     *)
(* Violated: the connection error requests raises is not the builtin       *)
(* ConnectionError the handler names, and escapes.                         *)
(***************************************************************************)
C6_DownloadFailureIsContained ==
  (last.op = "init" /\ last.downloaded /\ LastHttpFailed) =>
    LET k == Len(last.http)
        todo == last.obj.non_local_files
        before == Len(last.obj.local_files) - (k - 1)
    IN /\ last.exc = "none"
       /\ k <= Len(todo)
       /\ \A i \in 1..k : last.http[i][1] = todo[i][2]
       /\ \A i \in 1..(k - 1) :
            /\ disk[last.pid][todo[i][1]] = Body(todo[i][2])
            /\ last.obj.local_files[before + i] = todo[i][1]
       /\ \A i \in k..Len(todo) : disk[last.pid][todo[i][1]] = NoFile
       /\ before + Len(todo) = Len(last.obj.files)

(***************************************************************************)
(* C7: unload() and reload() call the host over local_files in order and   *)
(* stop at the first failure of any kind: no later file is passed to the   *)
(* host, enabled ends false, the result is false, nothing is raised and    *)
(* what the earlier calls did to the host stays done; without a failure    *)
(* every file is passed, the result is true and enabled is unchanged.      *)
(***************************************************************************)
C7_UnloadReloadStopAtFirstFailure ==
  (last.op \in {"unload", "reload"}) =>
    LET k == Len(last.host)
        done == { LastNames[i] : i \in 1..(k - 1) }
    IN /\ last.exc = "none"
       /\ CalledInOrder(k)
       /\ \A i \in 1..k :
            last.host[i][2] \in
              (IF last.op = "unload"
               THEN {"ok", "ExtensionNotFound", "ExtensionNotLoaded"}
               ELSE {"ok", "ExtensionNotFound", "ExtensionNotLoaded",
                     "ExtensionFailed", "NoEntryPointError"})
       /\ IF LastHostFailed
          THEN /\ ~plugins[last.pid].enabled
               /\ last.ret = "False"
               /\ extensions = IF last.op = "unload"
                               THEN last.pre.extensions \ done
                               ELSE last.pre.extensions
               /\ done \subseteq last.pre.extensions
          ELSE /\ k = Len(LastNames)
               /\ last.ret = "True"
               /\ plugins[last.pid].enabled = last.pre.plugin.enabled

C7_Witness ==
  /\ last.op = "unload"
  /\ last.pre.plugin.enabled
  /\ Len(LastNames) = 3
  /\ Len(last.host) = 2
  /\ last.host[2][2] = "ExtensionNotLoaded"
  /\ LastNames[1] \notin extensions
  /\ LastNames[3] \in extensions

C9_CollisionFree ==
  \A pid \in DOMAIN plugins :
    plugins[pid].constructed =>
      \A p1, p2 \in PathsOf(plugins[pid].files) :
        p1 # p2 =>
          generate_safe_path(plugins[pid].folder_name, p1)
            # generate_safe_path(plugins[pid].folder_name, p2)

\* path is stem + ".py" where stem holds no space, hyphen or dot
IsModulePath(path) ==
  /\ Len(path) > 3
  /\ SubSeq(path, Len(path) - 2, Len(path)) = <<".", "p", "y">>
  /\ \A i \in 1..(Len(path) - 3) : path[i] \notin {" ", "-", "."}

(***************************************************************************)
(* C9 (amended): two distinct relative paths of a plugin's file set that   *)
(* both are a stem without space, hyphen or dot followed by ".py"          *)
(* translate to distinct module identifiers, each under the prefix         *)
(* "plugins.<folder_name>.".                                               *)
(***************************************************************************)
C9_CollisionFreeOnModulePaths ==
  \A pid \in DOMAIN plugins :
    plugins[pid].constructed =>
      \A p1, p2 \in { p \in PathsOf(plugins[pid].files) : IsModulePath(p) } :
        p1 # p2 =>
          generate_safe_path(plugins[pid].folder_name, p1)
            # generate_safe_path(plugins[pid].folder_name, p2)

C9_Witness ==
  \E pid \in DOMAIN plugins :
    /\ plugins[pid].constructed
    /\ \E p1, p2 \in PathsOf(plugins[pid].files) :
         p1 # p2 /\ IsModulePath(p1) /\ IsModulePath(p2)

(***************************************************************************)
(* C10: the constructor attempts a download iff the record has files,      *)
(* some of them is missing on disk and the record's enabled flag is        *)
(* false; a constructor that attempts none issues no GET, and one that     *)
(* attempts one issues at least one.                                       *)
(***************************************************************************)
C10_DownloadOnlyWhenDisabled ==
  (last.op = "init") =>
    /\ last.downloaded <=>
         (dbFiles[last.pid] # <<>> /\ MissingBefore(last.pid)
            /\ ~last.pre.db[last.pid].enabled)
    /\ last.downloaded <=> (last.http # <<>>)
    /\ ~last.downloaded => disk = last.pre.disk

C10_Witness ==
  /\ last.op = "init"
  /\ last.pre.db[last.pid].enabled
  /\ MissingBefore(last.pid)
  /\ last.http = <<>>
  /\ plugins[last.pid].constructed
  /\ plugins[last.pid].non_local_files # <<>>

(***************************************************************************)
(* C11: get_requirements() returns the empty list when the folder has no   *)
(* requirements file, and otherwise exactly the non-empty lines of the     *)
(* file, in file order; it changes nothing.                                *)
(* Violated: splitlines() keeps the blank lines as empty strings.          *)
(***************************************************************************)
\* the text cut at the newlines, the empty pieces included
RECURSIVE Pieces(_)
Pieces(text) ==
  IF \E i \in 1..Len(text) : text[i] = "\n"
  THEN LET i == CHOOSE j \in 1..Len(text) :
                  text[j] = "\n" /\ \A h \in 1..(j - 1) : text[h] # "\n"
       IN <<SubSeq(text, 1, i - 1)>> \o Pieces(SubSeq(text, i + 1, Len(text)))
  ELSE <<text>>

NonEmptyLines(text) == SelectSeq(Pieces(text), LAMBDA l : l # <<>>)

C11_RequirementsAreNonEmptyLines ==
  (last.op = "get_requirements") =>
    /\ last.out = IF last.req.exists THEN NonEmptyLines(last.req.text) ELSE <<>>
    /\ plugins = [plugins EXCEPT ![last.pid] = last.pre.plugin]
    /\ db = last.pre.db
    /\ disk = last.pre.disk
    /\ extensions = last.pre.extensions

(***************************************************************************)
(* C12: constructing a Plugin from a record without files gives            *)
(* empty = true and enabled = false, whatever the record's enabled flag,   *)
(* and attempts no download.                                               *)
(***************************************************************************)
C12_EmptyRecordIsDisabled ==
  (last.op = "init" /\ dbFiles[last.pid] = <<>>) =>
    /\ last.exc = "none"
    /\ plugins[last.pid] = last.obj
    /\ last.obj.empty
    /\ ~last.obj.enabled
    /\ ~last.downloaded
    /\ last.http = <<>>
    /\ disk = last.pre.disk

C12_Witness ==
  /\ last.op = "init"
  /\ dbFiles[last.pid] = <<>>
  /\ last.pre.db[last.pid].enabled
  /\ ~plugins[last.pid].enabled

(***************************************************************************)
(* C13: in a download batch the missing files are fetched in               *)
(* non_local_files order; every file whose fetch succeeds is on disk with  *)
(* the response body as its content, and its path is appended to           *)
(* local_files; a file that was not fetched is neither written nor         *)
(* appended.                                                               *)
(***************************************************************************)
\* the number of fetches of the last operation that succeeded
LastFetched == Len(last.http) - (IF LastHttpFailed THEN 1 ELSE 0)

\* local_files as resolution against the disk left it, before any download
ResolvedLocal == _exists_localy(last.obj.files, last.pre.disk, last.pid).local_files

C13_DownloadWritesThenAppends ==
  (last.op = "init" /\ last.downloaded) =>
    LET todo == last.obj.non_local_files
        k == LastFetched
    IN /\ Len(last.http) <= Len(todo)
       /\ \A i \in 1..Len(last.http) : last.http[i][1] = todo[i][2]
       /\ \A i \in 1..k : last.http[i][2] = "ok"
       /\ \A i \in 1..k : disk[last.pid][todo[i][1]] = Body(todo[i][2])
       /\ last.obj.local_files = ResolvedLocal \o [i \in 1..k |-> todo[i][1]]
       /\ \A i \in (k + 1)..Len(todo) : disk[last.pid][todo[i][1]] = NoFile
       /\ \A path \in Elems(ResolvedLocal) : disk[last.pid][path] = last.pre.disk[last.pid][path]

C13_Witness ==
  /\ last.op = "init"
  /\ last.downloaded
  /\ LastFetched >= 2
  /\ ResolvedLocal # <<>>
  /\ plugins[last.pid].local_files = last.obj.local_files

(***************************************************************************)
(* C14: local_files only grows: over every operation (construction with    *)
(* its download, load, unload, reload, enable, disable, get_requirements)  *)
(* the list before is a prefix of the list after.                          *)
(***************************************************************************)
IsPrefix(s, t) == Len(s) <= Len(t) /\ SubSeq(t, 1, Len(s)) = s

C14_LocalFilesOnlyGrows ==
  (last.op # "none") =>
    /\ IsPrefix(last.pre.plugin.local_files, plugins[last.pid].local_files)
    /\ (last.op = "init") => IsPrefix(ResolvedLocal, last.obj.local_files)
    /\ (last.op # "init") =>
         plugins[last.pid].local_files = last.pre.plugin.local_files

C14_Witness ==
  /\ last.op = "init"
  /\ ResolvedLocal # <<>>
  /\ Len(plugins[last.pid].local_files) > Len(ResolvedLocal)

(***************************************************************************)
(* C16: resolution at construction partitions the declared files by their  *)
(* presence on disk: the paths present are local_files, the (path, url)    *)
(* pairs absent are non_local_files, both in the order of files, and       *)
(* local is true iff non_local_files is empty.                             *)
(***************************************************************************)
\* the entries of files that were on disk, resp. were not, before construction
PresentBefore ==
  SelectSeq(last.obj.files, LAMBDA f : last.pre.disk[last.pid][f[1]] # NoFile)

AbsentBefore ==
  SelectSeq(last.obj.files, LAMBDA f : last.pre.disk[last.pid][f[1]] = NoFile)

C16_ResolutionPartitions ==
  (last.op = "init") =>
    /\ last.obj.non_local_files = AbsentBefore
    /\ Len(last.obj.local_files) >= Len(PresentBefore)
    /\ \A i \in 1..Len(PresentBefore) : last.obj.local_files[i] = PresentBefore[i][1]
    /\ last.obj.local <=> (last.obj.non_local_files = <<>>)
    /\ ~last.downloaded => Len(last.obj.local_files) = Len(PresentBefore)

C16_Witness ==
  /\ last.op = "init"
  /\ Len(last.obj.files) = 3
  /\ Len(PresentBefore) = 2
  /\ AbsentBefore = <<last.obj.files[2]>>
  /\ ~plugins[last.pid].local

(***************************************************************************)
(* C17: the module identifier handed to the host is plugins.<folder_name>. *)
(* followed by the relative path with only its trailing .py removed and    *)
(* space, hyphen and dot mapped to the underscore, the separator to the    *)
(* dot: a .py in the interior of the path is normalized, not deleted.      *)
(* Violated: replace(".py", "") deletes every occurrence of .py.           *)
(***************************************************************************)
\* the path without its trailing .py
WithoutSuffix(path) ==
  IF Len(path) >= 3 /\ IsPrefixAt(path, <<".", "p", "y">>, Len(path) - 2)
  THEN SubSeq(path, 1, Len(path) - 3)
  ELSE path

\* the translation that removes the suffix only
TrailingOnly(folder_name, path) ==
  <<"p", "l", "u", "g", "i", "n", "s", ".">> \o folder_name \o <<".">> \o
    Replace(Replace(Replace(Replace(WithoutSuffix(path),
        <<" ">>, <<"_">>),
        <<"-">>, <<"_">>),
        <<".">>, <<"_">>),
        <<"/">>, <<".">>)

C17_OnlyTrailingSuffixStripped ==
  (last.op \in {"load", "unload", "reload"}) =>
    \A i \in 1..Len(last.host) :
      last.host[i][1] =
        TrailingOnly(last.pre.plugin.folder_name, last.pre.plugin.local_files[i])

(***************************************************************************)
(* C18: after construction only enable() turns the enabled flag from false *)
(* to true; once a load(), unload() or reload() has failed or disable()    *)
(* was called, every later load() returns false without any host call      *)
(* until enable() is called, whatever load, unload, reload, disable and    *)
(* get_requirements calls come in between.                                 *)
(* Violated on the failure of C1: a load() that fails on an already loaded *)
(* module leaves enabled true, and the next load() calls the host again.   *)
(***************************************************************************)
C18_OnlyEnableReenables ==
  /\ (/\ last.op \in {"load", "unload", "reload", "disable", "get_requirements"}
      /\ ~last.pre.plugin.enabled)
       => ~plugins[last.pid].enabled
  /\ (last.op = "load" /\ last.pre.barred) =>
       /\ last.ret = "False"
       /\ last.host = <<>>

(***************************************************************************)
(* C19: load(), unload() and reload() write neither the database nor the   *)
(* disk and leave files, empty, local, local_files and non_local_files as  *)
(* they are; the only plugin state they change is the enabled flag, from   *)
(* true to false when they return false, so the stored flag keeps its      *)
(* value and may differ from the flag in memory.                           *)
(***************************************************************************)
C19_HostOpsTouchOnlyEnabled ==
  (last.op \in {"load", "unload", "reload"}) =>
    /\ db = last.pre.db
    /\ disk = last.pre.disk
    /\ last.http = <<>>
    /\ plugins[last.pid] =
         [last.pre.plugin EXCEPT !.enabled = plugins[last.pid].enabled]
    /\ plugins[last.pid].enabled # last.pre.plugin.enabled =>
         /\ last.pre.plugin.enabled
         /\ last.ret = "False"
         /\ LastHostFailed

C19_Witness ==
  /\ last.op = "reload"
  /\ last.ret = "False"
  /\ last.pre.plugin.enabled
  /\ ~plugins[last.pid].enabled
  /\ db[last.pid].enabled
  /\ last.pre.plugin.local_files # <<>>

(***************************************************************************)
(* C20: unload() and reload() do not look at the enabled flag: on a        *)
(* disabled plugin they still call the host for the paths of local_files,  *)
(* in order, up to the first failure; disable() calls the host for nothing *)
(* and leaves its loaded modules as they are, so a disabled plugin can     *)
(* have modules loaded.                                                    *)
(***************************************************************************)
C20_UnloadReloadIgnoreEnabled ==
  /\ (last.op \in {"unload", "reload"} /\ ~last.pre.plugin.enabled) =>
       /\ CalledInOrder(Len(last.host))
       /\ (LastNames # <<>>) => (last.host # <<>>)
       /\ ~LastHostFailed => Len(last.host) = Len(LastNames)
  /\ (last.op = "disable") =>
       /\ last.host = <<>>
       /\ extensions = last.pre.extensions

C20_Witness ==
  /\ last.op = "unload"
  /\ ~last.pre.plugin.enabled
  /\ Len(last.host) >= 2
  /\ ~LastHostFailed
  /\ \A i \in 1..Len(last.host) : last.host[i][1] \in last.pre.extensions

(***************************************************************************)
(* C15: in a load-all pass over the registry a plugin whose load fails     *)
(* does not keep the later plugins from being loaded: each load() returns  *)
(* a boolean and changes only its own plugin's enabled flag, every plugin  *)
(* of the registry gets its load() called, in population order, and the    *)
(* outcome of each is what it would have been without the others.          *)
(* Violated on the failure of C1: a load() that meets an already loaded    *)
(* module raises, and the exception ends the pass.                         *)
(***************************************************************************)
C15_LoadAllReachesEveryPlugin ==
  (last.op = "load_all_plugins") =>
    /\ Len(last.out) = NumPlugins
    /\ \A i \in PluginIds :
         /\ last.out[i].pid = i
         /\ last.out[i].ret \in {"True", "False"}
         /\ last.out[i].ret =
              load(last.pre.plugins[i], last.pre.extensions, last.out[i].env).ret
         /\ plugins[i] =
              [last.pre.plugins[i] EXCEPT
                 !.enabled = @ /\ last.out[i].ret = "True"]

====
